---- MODULE Spec2Model ----
(***************************************************************************)
(* A model of src/src/game.cpp: a spaceship that moves between three lanes *)
(* and a comet that falls in a random lane.                                *)
(*                                                                         *)
(* Numbers.  The program computes in IEEE-754 single precision.  A float   *)
(* is represented here by an integer count of fixed units: positions and   *)
(* sizes in units of 2^-20 pixel (Unit), times in units of 2^-26 second    *)
(* (TimeUnit).  Every arithmetic result is rounded to 24 significant bits, *)
(* ties to even, as the hardware does.  The representation is exact for    *)
(* every value whose float result is a multiple of the unit, which is the  *)
(* case for all values the input sets below can produce.                   *)
(*                                                                         *)
(* Rendering state (VAO, texID, shaders) has no influence on the game      *)
(* state and is not modelled.                                              *)
(***************************************************************************)
EXTENDS Integers

\* ---------------------------------------------------------------- scales
Unit == 2^20
TimeUnit == 2^26
Mant == 2^24

\* ------------------------------------------------------------ input sets
\* rand() returns a value in 0..MaxRand (the model's stand-in for RAND_MAX)
MaxRand == 3
\* number of iterations of the game loop that are explored
MaxFrames == 5
\* number of key events delivered by one glfwPollEvents
MaxEvents == 1

RandValues == 0..MaxRand
\* deltaTime arguments of updateGame, in TimeUnit: 0, float(1/6), 1/4, 3/4 s
DeltaTimes == {0, 11184811, 2^24, 3 * 2^24}
\* time between two readings of glfwGetTime, in TimeUnit: float(1/6), 1/4 s
FrameDeltas == {11184811, 2^24}
\* lane arguments of moveSpaceship
LaneRequests == -1..3
Keys == {"LEFT", "RIGHT", "OTHER"}
KeyActions == {"PRESS", "RELEASE", "REPEAT"}

\* ------------------------------------------------------ float arithmetic
Abs(n) == IF n < 0 THEN -n ELSE n

\* the spacing of floats around the magnitude m (in units): the least power
\* of two q with m / q < 2^24
RECURSIVE Quantum(_, _)
Quantum(m, q) == IF m \div q < Mant THEN q ELSE Quantum(m, 2 * q)

\* a / b rounded to the nearest integer, ties to the even one (a >= 0, b > 0)
RoundRat(a, b) ==
  LET f == a \div b
      r == a % b
  IN  IF 2 * r < b THEN f
      ELSE IF 2 * r > b THEN f + 1
      ELSE IF f % 2 = 0 THEN f ELSE f + 1

\* the float nearest to a / b
F32Rat(a, b) ==
  LET m == Abs(a)
      q == Quantum(m \div b, 1)
      v == RoundRat(m, b * q) * q
  IN  IF a < 0 THEN -v ELSE v

\* the float nearest to n
F32(n) == F32Rat(n, 1)

\* the float product of the integer-valued float c and the time t, as a
\* length: c * t * Unit / TimeUnit, with common factors of two removed first
RECURSIVE FMulTime(_, _, _)
FMulTime(c, t, d) ==
  IF d % 2 = 0 /\ t % 2 = 0 /\ t # 0 THEN FMulTime(c, t \div 2, d \div 2)
  ELSE IF d % 2 = 0 /\ c % 2 = 0 THEN FMulTime(c \div 2, t, d \div 2)
  ELSE F32Rat(c * t, d)

\* ------------------------------------------------------------- constants
WIDTH == 800
HEIGHT == 600
LANE_WIDTH == F32Rat(WIDTH * Unit, 3)
FallSpeed == 300
RespawnBelow == -50

vec3(x, y, z) == [x |-> x, y |-> y, z |-> z]

\* Sprite::setupSprite: position, dimensions, angle = 0
setupSprite(pos, dim) == [position |-> pos, dimensions |-> dim, angle |-> 0]

\* the x coordinate moveSpaceship and resetComet compute for a lane
LaneX(lane) == F32(F32Rat(LANE_WIDTH, 2) + F32(lane * LANE_WIDTH))

\* ------------------------------------------------------------------ state
VARIABLES
  spaceship,      \* Sprite
  comet,          \* Sprite
  gameOver,       \* bool
  spaceshipLane,  \* int
  pc,             \* position of main: "loop", "update", "poll", "done"
  clock,          \* glfwGetTime(), in TimeUnit
  currentFrame,   \* main's local float currentFrame, in TimeUnit
  shouldClose,    \* glfwWindowShouldClose(window)
  polled,         \* key events delivered by the current glfwPollEvents
  frames,         \* iterations of the game loop started so far
  last            \* history: the last operation, its arguments, the state before it

game == <<spaceship, comet, gameOver, spaceshipLane>>
mainVars == <<pc, clock, currentFrame, shouldClose, polled, frames>>
vars == <<spaceship, comet, gameOver, spaceshipLane, pc, clock, currentFrame,
          shouldClose, polled, frames, last>>

\* the game state as one value, for the history variable
Snapshot == [spaceship |-> spaceship, comet |-> comet, gameOver |-> gameOver,
             spaceshipLane |-> spaceshipLane]

Hist(op, lane, dt, key, action, adv, respawned, elapsed, twice) ==
  [op |-> op, lane |-> lane, deltaTime |-> dt, key |-> key, action |-> action,
   adv |-> adv, respawned |-> respawned, elapsed |-> elapsed, twice |-> twice,
   pre |-> Snapshot]

\* ------------------------------------------------------------- operations
\* the sprite resetComet builds for a value r of rand()
SpawnedComet(r) ==
  setupSprite(vec3(LaneX(r % 3), F32((HEIGHT + 50) * Unit), 0),
              vec3(50 * Unit, 50 * Unit, Unit))

resetComet == \E r \in RandValues : comet' = SpawnedComet(r)

\* variant: the lane is stored but the position is not recomputed
moveSpaceship_LaneOnly(lane) ==
  /\ spaceshipLane' = lane
  /\ UNCHANGED <<spaceship, comet, gameOver>>

moveSpaceship(lane) ==
  /\ spaceshipLane' = lane
  /\ spaceship' = [spaceship EXCEPT !.position.x = LaneX(lane)]
  /\ UNCHANGED <<comet, gameOver>>

\* comet.position.y -= 300.0f * deltaTime
AdvancedY(y, deltaTime) == F32(y - FMulTime(FallSpeed, deltaTime, TimeUnit \div Unit))

\* variant: the test of the x coordinates is missing
Collision_AnyLane(c, s) ==
  /\ c.position.y < F32(s.position.y + s.dimensions.y)
  /\ c.position.y > F32(s.position.y - c.dimensions.y)

\* the condition of the first if of updateGame, c being the moved comet
Collision(c, s) ==
  /\ c.position.y < F32(s.position.y + s.dimensions.y)
  /\ c.position.y > F32(s.position.y - c.dimensions.y)
  /\ c.position.x = s.position.x

\* variant: the comet is reset as soon as it reaches the bottom edge
OffScreen_AtZero(c) == c.position.y < 0

\* the condition of the second if of updateGame
OffScreen(c) == c.position.y < RespawnBelow * Unit

MovedComet(deltaTime) ==
  [comet EXCEPT !.position.y = AdvancedY(comet.position.y, deltaTime)]

updateGame(deltaTime) ==
  LET moved == MovedComet(deltaTime) IN
  /\ gameOver' = IF Collision(moved, spaceship) THEN TRUE ELSE gameOver
  /\ IF OffScreen(moved) THEN resetComet ELSE comet' = moved
  /\ UNCHANGED <<spaceship, spaceshipLane>>

\* variant: the tests of the boundary lanes are missing
key_callback_Unclamped(key, action) ==
  IF action = "PRESS" /\ key = "LEFT"
    THEN moveSpaceship(spaceshipLane - 1)
  ELSE IF action = "PRESS" /\ key = "RIGHT"
    THEN moveSpaceship(spaceshipLane + 1)
  ELSE UNCHANGED game

key_callback(key, action) ==
  IF action = "PRESS" /\ key = "LEFT" /\ spaceshipLane > 0
    THEN moveSpaceship(spaceshipLane - 1)
  ELSE IF action = "PRESS" /\ key = "RIGHT" /\ spaceshipLane < 2
    THEN moveSpaceship(spaceshipLane + 1)
  ELSE UNCHANGED game

\* ---------------------------------------------------------- initial state
\* the state main has built when it reaches the game loop
Init ==
  /\ spaceship = setupSprite(vec3(F32((WIDTH \div 2) * Unit), F32(50 * Unit), 0),
                             vec3(50 * Unit, 50 * Unit, Unit))
  /\ \E r \in RandValues : comet = SpawnedComet(r)
  /\ gameOver = FALSE
  /\ spaceshipLane = 1
  /\ pc = "loop"
  /\ clock = 0
  /\ currentFrame = 0
  /\ shouldClose = FALSE
  /\ polled = 0
  /\ frames = 0
  /\ last = [op |-> "init", lane |-> 1, deltaTime |-> 0, key |-> "OTHER",
             action |-> "RELEASE", adv |-> 0, respawned |-> TRUE, elapsed |-> 0,
             twice |-> FALSE,
             pre |-> [spaceship |-> spaceship, comet |-> comet,
                      gameOver |-> FALSE, spaceshipLane |-> 1]]

\* ------------------------------------------- the functions, called freely
CallMoveSpaceship ==
  \E lane \in LaneRequests :
    /\ moveSpaceship(lane)
    /\ last' = Hist("moveSpaceship", lane, 0, "OTHER", "RELEASE", 0, FALSE, 0,
                    last.op = "moveSpaceship" /\ last.lane = lane)
    /\ UNCHANGED mainVars

CallUpdateGame ==
  \E dt \in DeltaTimes :
    /\ updateGame(dt)
    /\ last' = Hist("updateGame", 0, dt, "OTHER", "RELEASE",
                    MovedComet(dt).position.y, OffScreen(MovedComet(dt)), 0, FALSE)
    /\ UNCHANGED mainVars

CallResetComet ==
  /\ resetComet
  /\ UNCHANGED <<spaceship, gameOver, spaceshipLane>>
  /\ last' = Hist("resetComet", 0, 0, "OTHER", "RELEASE", 0, TRUE, 0, FALSE)
  /\ UNCHANGED mainVars

CallKeyCallback ==
  \E key \in Keys, action \in KeyActions :
    /\ key_callback(key, action)
    /\ last' = Hist("key_callback", 0, 0, key, action, 0, FALSE, 0, FALSE)
    /\ UNCHANGED mainVars

Next ==
  \/ CallMoveSpaceship
  \/ CallUpdateGame
  \/ CallResetComet
  \/ CallKeyCallback

Spec == Init /\ [][Next]_vars

\* ------------------------------------------------------- the game loop
\* variant: the loop tests the window only
LoopCondition_NoFlag == ~shouldClose

\* the condition of the while of main
LoopCondition == ~shouldClose /\ ~gameOver

\* the loop condition holds: the body starts and reads glfwGetTime()
EnterFrame ==
  /\ pc = "loop"
  /\ LoopCondition
  /\ frames < MaxFrames
  /\ \E d \in FrameDeltas :
       /\ clock' = clock + d
       /\ currentFrame' = F32(clock + d)
       /\ last' = Hist("glfwGetTime", 0, 0, "OTHER", "RELEASE", 0, FALSE, d, FALSE)
  /\ frames' = frames + 1
  /\ pc' = "update"
  /\ UNCHANGED <<spaceship, comet, gameOver, spaceshipLane, shouldClose, polled>>

\* the loop condition fails: glfwTerminate, return 0
ExitLoop ==
  /\ pc = "loop"
  /\ ~LoopCondition
  /\ pc' = "done"
  /\ UNCHANGED <<spaceship, comet, gameOver, spaceshipLane, clock, currentFrame,
                 shouldClose, polled, frames, last>>

\* updateGame(currentFrame), then the drawing, up to glfwPollEvents
UpdateStep ==
  /\ pc = "update"
  /\ updateGame(currentFrame)
  /\ last' = Hist("updateGame", 0, currentFrame, "OTHER", "RELEASE",
                  MovedComet(currentFrame).position.y,
                  OffScreen(MovedComet(currentFrame)), last.elapsed, FALSE)
  /\ polled' = 0
  /\ pc' = "poll"
  /\ UNCHANGED <<clock, currentFrame, shouldClose, frames>>

\* glfwPollEvents delivers a key event to key_callback
PollKey ==
  /\ pc = "poll"
  /\ polled < MaxEvents
  /\ \E key \in Keys, action \in KeyActions :
       /\ key_callback(key, action)
       /\ last' = Hist("key_callback", 0, 0, key, action, 0, FALSE, 0, FALSE)
  /\ polled' = polled + 1
  /\ UNCHANGED <<pc, clock, currentFrame, shouldClose, frames>>

\* glfwPollEvents processes a request to close the window
PollClose ==
  /\ pc = "poll"
  /\ ~shouldClose
  /\ shouldClose' = TRUE
  /\ UNCHANGED <<spaceship, comet, gameOver, spaceshipLane, pc, clock,
                 currentFrame, polled, frames, last>>

\* glfwPollEvents returns
PollReturn ==
  /\ pc = "poll"
  /\ pc' = "loop"
  /\ UNCHANGED <<spaceship, comet, gameOver, spaceshipLane, clock, currentFrame,
                 shouldClose, polled, frames, last>>

MainNext ==
  \/ EnterFrame
  \/ ExitLoop
  \/ UpdateStep
  \/ PollKey
  \/ PollClose
  \/ PollReturn

MainSpec == Init /\ [][MainNext]_vars

\* ---------------------------------------------------------------- claims
LaneCentres == {LaneX(L) : L \in 0..2}
Running(h) == ~h.pre.gameOver
YAfterAdvance(h) == AdvancedY(h.pre.comet.position.y, h.deltaTime)

\* C1: an updateGame call made while gameOver is already true changes
\* nothing: comet, spaceship, lane and flag are as before the call.
C1_UpdateWhileGameOverIsNoOp ==
  (last.op = "updateGame" /\ last.pre.gameOver) => Snapshot = last.pre

\* C2: once gameOver is true no moveSpaceship call and no key event changes
\* the lane or the spaceship, events of the same frame's poll included.
C2_NoLaneChangeAfterGameOver ==
  (last.op \in {"moveSpaceship", "key_callback"} /\ last.pre.gameOver)
    => /\ spaceshipLane = last.pre.spaceshipLane
       /\ spaceship = last.pre.spaceship

\* C3: moveSpaceship with a lane outside {0,1,2} leaves the lane and the
\* spaceship as they were.
C3_OutOfRangeLaneRejected ==
  (last.op = "moveSpaceship" /\ last.lane \notin 0..2)
    => /\ spaceshipLane = last.pre.spaceshipLane
       /\ spaceship = last.pre.spaceship

\* C4: after an updateGame call made in state Running, gameOver is true
\* exactly when the advanced comet is strictly inside the band
\* (ship.y - comet.height, ship.y + ship.height) and has the ship's x.
C4_GameOverIffCollision ==
  (last.op = "updateGame" /\ Running(last))
    => (gameOver <=>
          /\ YAfterAdvance(last)
               < last.pre.spaceship.position.y + last.pre.spaceship.dimensions.y
          /\ YAfterAdvance(last)
               > last.pre.spaceship.position.y - last.pre.comet.dimensions.y
          /\ last.pre.comet.position.x = last.pre.spaceship.position.x)

C4_Witness ==
  /\ last.op = "updateGame"
  /\ Running(last)
  /\ gameOver
  /\ last.pre.comet.position.x = last.pre.spaceship.position.x

\* C5: in the game loop the lane is always 0, 1 or 2 and the spaceship's x
\* is the centre of its lane; a left press in lane 0 and a right press in
\* lane 2 change nothing; the spaceship starts in lane 1.
C5_LaneInvariant ==
  /\ spaceshipLane \in 0..2
  /\ spaceship.position.x = LaneX(spaceshipLane)
  /\ (/\ last.op = "key_callback"
      /\ last.action = "PRESS"
      /\ \/ last.key = "LEFT" /\ last.pre.spaceshipLane = 0
         \/ last.key = "RIGHT" /\ last.pre.spaceshipLane = 2)
       => (spaceshipLane = last.pre.spaceshipLane /\ spaceship = last.pre.spaceship)
  /\ (last.op = "init") => spaceshipLane = 1

C5_Witness ==
  /\ last.op = "key_callback"
  /\ last.action = "PRESS"
  /\ last.key = "LEFT"
  /\ last.pre.spaceshipLane = 0

\* C6: an updateGame call made in state Running resets the comet exactly
\* when the advanced y is below -50; right after any reset (the initial one
\* included) the comet is at y = HEIGHT + 50 in one of the three lane
\* centres; without a reset the comet keeps its lane and the advanced y.
C6_RespawnPostcondition ==
  /\ (last.op = "updateGame" /\ Running(last))
       => /\ last.respawned <=> YAfterAdvance(last) < (-50) * Unit
          /\ ~last.respawned
               => /\ comet.position.y = YAfterAdvance(last)
                  /\ comet.position.x = last.pre.comet.position.x
  /\ (last.op \in {"init", "resetComet", "updateGame"} /\ last.respawned)
       => /\ comet.position.y = (HEIGHT + 50) * Unit
          /\ comet.position.x \in LaneCentres

C6_Witness ==
  /\ last.op = "updateGame"
  /\ Running(last)
  /\ last.respawned
  /\ YAfterAdvance(last) < (-50) * Unit

\* C7: moveSpaceship(L) with L in {0,1,2} in state Running sets the lane to L
\* and the spaceship's x to the centre of lane L, leaves the rest of the
\* spaceship, the comet and the flag alone, and a second call with the same
\* L changes nothing.
C7_MoveSpaceshipEffect ==
  (last.op = "moveSpaceship" /\ last.lane \in 0..2 /\ Running(last))
    => /\ spaceshipLane = last.lane
       /\ spaceship = [last.pre.spaceship EXCEPT !.position.x = LaneX(last.lane)]
       /\ comet = last.pre.comet
       /\ gameOver = last.pre.gameOver
       /\ last.twice => Snapshot = last.pre

C7_Witness ==
  /\ last.op = "moveSpaceship"
  /\ last.lane \in 0..2
  /\ Running(last)
  /\ last.twice

\* C8: gameOver is false at the start; once it is true every later step of
\* the game loop keeps it true and starts no further frame (no updateGame).
C8_GameOverMonotonic ==
  /\ ~gameOver
  /\ [][gameOver => (gameOver' /\ frames' = frames /\ pc' # "update")]_vars

C8_Witness ==
  /\ gameOver
  /\ pc = "done"
  /\ ~shouldClose
  /\ frames < MaxFrames

\* C9: in every frame of the game loop without a reset, the comet's y
\* decreases by exactly FallSpeed times the time since the previous frame.
C9_DropIsSpeedTimesElapsed ==
  (last.op = "updateGame" /\ ~last.respawned)
    => last.pre.comet.position.y - comet.position.y
         = FMulTime(FallSpeed, last.elapsed, TimeUnit \div Unit)

\* C10: no updateGame call of the game loop takes a comet that is above the
\* collision band in the spaceship's lane to the reset region (y < -50)
\* without setting gameOver.
C10_NoTunnelling ==
  (/\ last.op = "updateGame"
   /\ Running(last)
   /\ last.pre.comet.position.x = last.pre.spaceship.position.x
   /\ last.pre.comet.position.y
        >= last.pre.spaceship.position.y + last.pre.spaceship.dimensions.y
   /\ YAfterAdvance(last) < (-50) * Unit)
    => gameOver

====
